---- MODULE Spec2Model ----
(***************************************************************************)
(* A model of airscan-rust: airscan_lib (post_scanrequest, send_post,      *)
(* increase_retry_count, fetch_result, determine_filename) driven by       *)
(* airscan_cli's main.  The scanner, the transport and the local file      *)
(* system are the environment: every response, header, body and I/O        *)
(* outcome is chosen nondeterministically from small sets.                 *)
(*                                                                         *)
(* Text (file names, URLs, bodies) is a sequence of tokens, so that        *)
(* splitting, appending and joining are computed and not assumed.          *)
(***************************************************************************)
EXTENDS Integers, Sequences, FiniteSets, TLC

----------------------------------------------------------------------------
(* Bounds of the model and constants of the program *)

\* the device answers at most this many NextDocument requests with 2xx
MaxDocs == 2

\* lib.rs:132  const MAX_RETRIES: i32 = 100
MAX_RETRIES == 100

----------------------------------------------------------------------------
(* Option values *)

None == [ok |-> FALSE]
Some(v) == [ok |-> TRUE, val |-> v]

----------------------------------------------------------------------------
(* HTTP statuses *)

\* statuses the scanner answers a POST with
PostStatuses == {200, 201, 404, 500, 503}

\* statuses the scanner answers GET NextDocument with
GetStatuses == {200, 206, 404, 500, 503}

\* reqwest StatusCode::is_success: 200 <= status < 300
IsSuccess(status) == status >= 200 /\ status < 300

\* a mutant of IsBusy: every server error counts as busy
IsBusyAny5xx(status) == status >= 500 /\ status < 600

\* lib.rs:119  response.status().as_u16() == 503
IsBusy(status) == status = 503

\* a mutant of IsNotFound: no status ends the loop
IsNotFoundNever(status) == FALSE

\* lib.rs:167  response.status().as_u16() == 404
IsNotFound(status) == status = 404

----------------------------------------------------------------------------
(* URLs.  A URL text is a token sequence: a scheme token ("http://" or     *)
(* "mailto:"), then host and path tokens, "/" being the path separator.    *)

\* the texts a Location header can carry
HeaderTexts ==
  { <<"/", "j">>,                   \* relative reference: not a URL
    <<"http://", "h">>,             \* absolute, empty path
    <<"http://", "h", "/", "j">>,   \* absolute, with a path
    <<"mailto:", "x">> }            \* absolute, cannot be a base

\* the Location header of a response: absent, bytes that are not visible
\* ASCII (HeaderValue::to_str fails), or a text
LocationHeaders ==
  { [kind |-> "absent"], [kind |-> "opaque"] }
    \cup { [kind |-> "text", text |-> t] : t \in HeaderTexts }

\* Url::parse: an absolute URL is required; an http URL needs a host and
\* gets the path "/" when it has none; the result is the serialisation
UrlParse(s) ==
  IF s = <<>> THEN None
  ELSE IF s[1] = "http://"
    THEN IF Len(s) >= 2 /\ s[2] # "/"
           THEN IF Len(s) = 2 THEN Some(s \o <<"/">>) ELSE Some(s)
           ELSE None
  ELSE IF s[1] = "mailto:" THEN Some(s)
  ELSE None

\* Url::cannot_be_a_base
CannotBeABase(u) == u[1] = "mailto:"

\* index of the last "/" token of u (0 when there is none)
RECURSIVE LastSlash(_, _)
LastSlash(u, i) ==
  IF i = 0 THEN 0
  ELSE IF u[i] = "/" THEN i
  ELSE LastSlash(u, i - 1)

\* Url::join(segment): fails on a URL that cannot be a base; otherwise the
\* segment replaces what follows the last path separator
UrlJoin(u, segment) ==
  IF CannotBeABase(u) THEN None
  ELSE Some(SubSeq(u, 1, LastSlash(u, Len(u))) \o <<segment>>)

\* a mutant of LocationUrl: the separator is not appended
LocationUrlNoSlash(header) ==
  IF header.kind = "text" THEN UrlParse(header.text) ELSE None

\* lib.rs:108-112  headers().get("location").and_then(to_str().ok())
\*                 .and_then(|s| Url::parse(&format!("{}/", s)).ok())
LocationUrl(header) ==
  IF header.kind = "text" THEN UrlParse(header.text \o <<"/">>) ELSE None

----------------------------------------------------------------------------
(* File names *)

\* the character of one decimal digit
Digit(d) == <<"0", "1", "2", "3", "4", "5", "6", "7", "8", "9">>[d + 1]

\* decimal digits of n >= 0, as format!("{}", n) prints them
RECURSIVE ToDecimal(_)
ToDecimal(n) ==
  IF n < 10 THEN <<Digit(n)>> ELSE ToDecimal(n \div 10) \o <<Digit(n % 10)>>

\* str::split('.'): the pieces between the "." tokens (at least one piece)
RECURSIVE SplitDot(_, _, _)
SplitDot(s, i, piece) ==
  IF i > Len(s) THEN <<piece>>
  ELSE IF s[i] = "." THEN <<piece>> \o SplitDot(s, i + 1, <<>>)
  ELSE SplitDot(s, i + 1, Append(piece, s[i]))

\* a mutant of determine_filename: the sequence number is left out
determine_filename_no_count(multi_, outfile_, count_) ==
  IF multi_
    THEN LET parts == SplitDot(outfile_, 1, <<>>)
         IN IF Len(parts) < 2 THEN None
            ELSE Some(parts[1] \o <<"-">> \o <<".">> \o parts[2])
    ELSE Some(outfile_)

\* a mutant of determine_filename: multi is ignored
determine_filename_ignores_multi(multi_, outfile_, count_) == Some(outfile_)

\* lib.rs:176-184.  None stands for the panic of parts[1] (index out of
\* bounds) when outfile holds no "."
determine_filename(multi_, outfile_, count_) ==
  IF multi_
    THEN LET parts == SplitDot(outfile_, 1, <<>>)
         IN IF Len(parts) < 2 THEN None
            ELSE Some(parts[1] \o <<"-">> \o ToDecimal(count_)
                        \o <<".">> \o parts[2])
    ELSE Some(outfile_)

----------------------------------------------------------------------------
(* Inputs *)

\* main.rs:13-23  the --source and --format arguments tried
Sources == {"Platen", "Feeder"}
Formats == { <<"pdf">>, <<"jpg">> }

\* base output paths a direct caller of fetch_result passes: no ".", one, two
OutFiles == { <<"out">>, <<"a", ".", "t">>, <<"a", ".", "t", ".", "z">> }

\* job locations a direct caller of fetch_result passes
DirectLocations ==
  { <<"http://", "h", "/">>, <<"http://", "h", "/", "j", "/">>,
    <<"mailto:", "x", "/">> }

\* bodies of the documents the scanner sends
Bodies == { <<"x">>, <<"y", "z">> }

\* the proper prefixes of a body: what a failed copy leaves in the file
ProperPrefixes(body) == { SubSeq(body, 1, n) : n \in 0..(Len(body) - 1) }

\* the file system: a function from the names of the files present to
\* their contents
EmptyFs == [n \in {} |-> <<>>]
OldBody == <<"old">>
OldNames ==
  { <<"a", ".", "t">>, <<"a", "-", "1", ".", "t">>, <<"a", "-", "2", ".", "t">>,
    <<"scan", ".", "pdf">>, <<"scan", ".", "jpg">>,
    <<"scan", "-", "1", ".", "jpg">> }
OldFs == [n \in OldNames |-> OldBody]

\* File::create: the file exists and is empty afterwards
CreateFile(files, name) ==
  [n \in DOMAIN files \cup {name} |-> IF n = name THEN <<>> ELSE files[n]]

\* io::copy into a created file
WriteFile(files, name, data) ==
  [n \in DOMAIN files \cup {name} |-> IF n = name THEN data ELSE files[n]]

\* main.rs:30-34
MainMultifile(source, format) == source = "Feeder" /\ format # <<"pdf">>

\* main.rs:48  format!("scan.{}", opt.format)
MainOutfile(format) == <<"scan", ".">> \o format

----------------------------------------------------------------------------
(* build_scansettings_xml: lib.rs:19-61.  The document is the sequence of   *)
(* the texts pushed, a parameter being the tokens of its text.             *)

\* the parameters a direct caller passes
XmlSources == { <<"Platen">>, <<"Feeder">> }
XmlResolutions == { <<"300">>, <<"600">> }
XmlFormats == { <<"application/", "pdf">>, <<"application/", "jpg">> }
XmlColorModes == { <<"RGB24">>, <<"Grayscale8">> }
ExtFormats == { None, Some(TRUE), Some(FALSE) }

\* lib.rs:33-41  the texts pushed between the input source and the format
XmlRegions ==
  << "<pwg:ScanRegions>", "<pwg:ScanRegion>",
     "<pwg:ContentRegionUnits>escl:ThreeHundredthsOfInches</pwg:ContentRegionUnits>",
     "<pwg:Height>3507</pwg:Height>", "<pwg:Width>2550</pwg:Width>",
     "<pwg:XOffset>0</pwg:XOffset>", "<pwg:YOffset>0</pwg:YOffset>",
     "</pwg:ScanRegion>", "</pwg:ScanRegions>" >>

\* lib.rs:26-29  the texts pushed first
XmlHead ==
  << "<?xml version=\"1.0\" encoding=\"UTF-8\"?>",
     "<scan:ScanSettings xmlns:pwg=\"http://www.pwg.org/schemas/2010/12/sm\" ",
     "xmlns:scan=\"http://schemas.hp.com/imaging/escl/2011/05/03\">",
     "<pwg:Version>2.0</pwg:Version>" >>

\* a mutant of build_scansettings_xml: DocumentFormatExt only for Some(true)
build_xml_ext_if_true(source, resolution, docformat, colormode, extformat) ==
  XmlHead
    \o <<"<pwg:InputSource>">> \o source \o <<"</pwg:InputSource>">>
    \o XmlRegions
    \o <<"<pwg:DocumentFormat>">> \o docformat \o <<"</pwg:DocumentFormat>">>
    \o (IF extformat = Some(TRUE)
          THEN <<"<pwg:DocumentFormatExt>">> \o docformat
                 \o <<"</pwg:DocumentFormatExt>">>
          ELSE <<>>)
    \o <<"<scan:ColorMode>">> \o colormode \o <<"</scan:ColorMode>">>
    \o <<"<scan:XResolution>">> \o resolution \o <<"</scan:XResolution>">>
    \o <<"<scan:YResolution>">> \o resolution \o <<"</scan:YResolution>">>
    \o <<"</scan:ScanSettings>">>

\* lib.rs:19-61
build_scansettings_xml(source, resolution, docformat, colormode, extformat) ==
  XmlHead
    \o <<"<pwg:InputSource>">> \o source \o <<"</pwg:InputSource>">>
    \o XmlRegions
    \o <<"<pwg:DocumentFormat>">> \o docformat \o <<"</pwg:DocumentFormat>">>
    \o (IF extformat.ok
          THEN <<"<pwg:DocumentFormatExt>">> \o docformat
                 \o <<"</pwg:DocumentFormatExt>">>
          ELSE <<>>)
    \o <<"<scan:ColorMode>">> \o colormode \o <<"</scan:ColorMode>">>
    \o <<"<scan:XResolution>">> \o resolution \o <<"</scan:XResolution>">>
    \o <<"<scan:YResolution>">> \o resolution \o <<"</scan:YResolution>">>
    \o <<"</scan:ScanSettings>">>

\* main.rs:18  the --resolution argument tried (its default)
MainResolution == <<"300">>

\* main.rs:36-42 and lib.rs:73  the parameters main's run builds with
MainXmlArgs(a) ==
  [source |-> <<a.source>>, resolution |-> MainResolution,
   docformat |-> <<"application/">> \o a.format, colormode |-> <<"RGB24">>,
   extformat |-> None]

----------------------------------------------------------------------------
(* State *)

VARIABLES
  entry,          \* "main": the CLI run; "fetch_result" and
                  \* "build_scansettings_xml": a direct call
  args,           \* main's parsed arguments [source, format]
  xmlArgs,        \* the parameters of build_scansettings_xml
  request,        \* the document built (lib.rs:73), <<>> before
  pc,             \* where the single flow of control stands
  inflight,       \* the network calls and timed waits in flight
  exit,           \* "running", or how the run ended: "ok", "err", "panic"
  count,          \* post_scanrequest's count (lib.rs:77)
  posts,          \* POST requests issued
  busy,           \* 503 answers received
  waits,          \* 1-second waits taken by increase_retry_count
  submitOutcome,  \* "none", "Accepted", "Rejected", "RequestFailed", "Timeout"
  rejectStatus,   \* the status the anyhow error of send_post carries
  lastPost,       \* the answer to the last POST
  location,       \* the job location: post_scanrequest's Ok value
  multi,          \* fetch_result's multi
  outfile,        \* fetch_result's outfile
  fetch_count,    \* fetch_result's count (lib.rs:145)
  filename,       \* fetch_result's filename of the current iteration
  gets,           \* GET NextDocument requests issued
  fetch_waits,    \* 1-second waits taken by fetch_result
  lastGet,        \* the answer to the last GET NextDocument
  docs,           \* the bodies of the 2xx answers to NextDocument, in order
  saved,          \* the completed saves, in order: [name, body]
  fs,             \* the file system
  fs0,            \* the file system as the run found it
  fetchOutcome,   \* "none", "Ok", "NotFound", "IoError", "JoinError",
                  \* "TransportPanic", "UnexpectedStatusPanic", "FilenamePanic"
  oks,            \* 2xx answers to GET NextDocument received
  created,        \* the names File::create succeeded on, in order
  ioFail          \* "none", or the step of a save that failed:
                  \* "create", "read", "write"

submitVars ==
  <<count, posts, busy, waits, submitOutcome, rejectStatus, lastPost, location>>
fetchLog == <<oks, created, ioFail>>
fetchVars ==
  <<multi, outfile, fetch_count, filename, gets, fetch_waits, lastGet, docs,
    saved, fs, fetchOutcome, fetchLog>>
xmlVars == <<xmlArgs, request>>
vars ==
  <<entry, args, fs0, xmlVars, pc, inflight, exit, submitVars, fetchVars>>

NoArgs == [source |-> "none", format |-> <<>>]
NoXmlArgs ==
  [source |-> <<>>, resolution |-> <<>>, docformat |-> <<>>,
   colormode |-> <<>>, extformat |-> None]

\* what a request got: nothing yet, no response at all, or a response
NoAnswer == [kind |-> "none"]
Failed == [kind |-> "failed"]
PostAnswer(status, header) ==
  [kind |-> "response", status |-> status, header |-> header]
GetAnswer(status) == [kind |-> "response", status |-> status]

Init ==
  /\ entry \in {"main", "fetch_result", "build_scansettings_xml"}
  /\ inflight = {}
  /\ exit = "running"
  /\ count = 0
  /\ posts = 0
  /\ busy = 0
  /\ waits = 0
  /\ submitOutcome = "none"
  /\ rejectStatus = 0
  /\ lastPost = NoAnswer
  /\ lastGet = NoAnswer
  /\ fetch_count = 1
  /\ filename = <<>>
  /\ gets = 0
  /\ fetch_waits = 0
  /\ docs = <<>>
  /\ saved = <<>>
  /\ fs \in {EmptyFs, OldFs}
  /\ fs0 = fs
  /\ fetchOutcome = "none"
  /\ oks = 0
  /\ created = <<>>
  /\ ioFail = "none"
  /\ CASE entry = "main" ->
            /\ args \in [source : Sources, format : Formats]
            /\ xmlArgs = MainXmlArgs(args)
            /\ request =
                 build_scansettings_xml(xmlArgs.source, xmlArgs.resolution,
                                        xmlArgs.docformat, xmlArgs.colormode,
                                        xmlArgs.extformat)
            /\ pc = "post_send"
            /\ location = None
            /\ multi = FALSE
            /\ outfile = <<>>
       [] entry = "fetch_result" ->
            /\ args = NoArgs
            /\ xmlArgs = NoXmlArgs
            /\ request = <<>>
            /\ pc = "fetch_top"
            /\ location \in { Some(u) : u \in DirectLocations }
            /\ multi \in BOOLEAN
            /\ outfile \in OutFiles
       [] entry = "build_scansettings_xml" ->
            /\ args = NoArgs
            /\ xmlArgs \in [source : XmlSources, resolution : XmlResolutions,
                             docformat : XmlFormats, colormode : XmlColorModes,
                             extformat : ExtFormats]
            /\ request = <<>>
            /\ pc = "build"
            /\ location = None
            /\ multi = FALSE
            /\ outfile = <<>>

----------------------------------------------------------------------------
(* build_scansettings_xml called on its own *)

\* lib.rs:19-61  the document is built and returned
BuildScanSettings ==
  /\ pc = "build"
  /\ request' =
       build_scansettings_xml(xmlArgs.source, xmlArgs.resolution,
                              xmlArgs.docformat, xmlArgs.colormode,
                              xmlArgs.extformat)
  /\ exit' = "ok"
  /\ pc' = "done"
  /\ UNCHANGED <<entry, args, fs0, xmlArgs, inflight, submitVars, fetchVars>>

----------------------------------------------------------------------------
(* post_scanrequest: lib.rs:63-88, with send_post and increase_retry_count *)

\* a mutant of send_post: a success without a usable Location is retried
send_post_retry_malformed(status, header) ==
  IF IsSuccess(status) /\ LocationUrl(header).ok
    THEN [kind |-> "Success", url |-> LocationUrl(header).val]
  ELSE IF IsBusy(status) \/ IsSuccess(status) THEN [kind |-> "Busy"]
  ELSE [kind |-> "Err", status |-> status]

\* lib.rs:107-122  what send_post makes of a response that arrived
send_post(status, header) ==
  IF IsSuccess(status) /\ LocationUrl(header).ok
    THEN [kind |-> "Success", url |-> LocationUrl(header).val]
  ELSE IF IsBusy(status) THEN [kind |-> "Busy"]
  ELSE [kind |-> "Err", status |-> status]

\* a mutant of RetryExhausted: the bound is never reached
RetryExhaustedNever(c) == FALSE

\* a mutant of RetryExhausted: one more retry is allowed
RetryExhaustedLate(c) == c > MAX_RETRIES

\* lib.rs:133  *count >= MAX_RETRIES
RetryExhausted(c) == c >= MAX_RETRIES

\* lib.rs:96-101  the POST is sent and awaited
PostSend ==
  /\ pc = "post_send"
  /\ posts' = posts + 1
  /\ inflight' = inflight \cup {"POST"}
  /\ pc' = "post_wait"
  /\ UNCHANGED <<entry, args, fs0, xmlVars, exit, count, busy, waits,
                 submitOutcome, rejectStatus, lastPost, location, fetchVars>>

\* a mutant of PostTransportFailure: a failed request is retried like a 503
PostTransportFailureRetried ==
  /\ pc = "post_wait"
  /\ lastPost' = Failed
  /\ count' = count + 1
  /\ waits' = waits + 1
  /\ inflight' = (inflight \ {"POST"}) \cup {"sleep"}
  /\ pc' = "retry_sleep"
  /\ UNCHANGED <<entry, args, fs0, xmlVars, exit, posts, busy,
                 submitOutcome, rejectStatus, location, fetchVars>>

\* lib.rs:104, 85 and main.rs:43  no response: send_post returns the
\* transport error, post_scanrequest returns it, main returns it
PostTransportFailure ==
  /\ pc = "post_wait"
  /\ inflight' = inflight \ {"POST"}
  /\ lastPost' = Failed
  /\ submitOutcome' = "RequestFailed"
  /\ exit' = "err"
  /\ pc' = "done"
  /\ UNCHANGED <<entry, args, fs0, xmlVars, count, posts, busy, waits,
                 rejectStatus, location, fetchVars>>

\* lib.rs:114-115, 81  post_scanrequest returns Ok(url)
PostAccepted ==
  /\ pc = "post_wait"
  /\ \E status \in PostStatuses, header \in LocationHeaders :
       LET r == send_post(status, header)
       IN /\ r.kind = "Success"
          /\ location' = Some(r.url)
          /\ lastPost' = PostAnswer(status, header)
  /\ inflight' = inflight \ {"POST"}
  /\ submitOutcome' = "Accepted"
  /\ pc' = "main_fetch"
  /\ UNCHANGED <<entry, args, fs0, xmlVars, exit, count, posts, busy, waits,
                 rejectStatus, fetchVars>>

\* a mutant of PostBusy: the count is increased and the POST sent again
\* without the sleep
PostBusyNoSleep ==
  /\ pc = "post_wait"
  /\ \E status \in PostStatuses, header \in LocationHeaders :
       /\ send_post(status, header).kind = "Busy"
       /\ lastPost' = PostAnswer(status, header)
  /\ inflight' = inflight \ {"POST"}
  /\ busy' = busy + 1
  /\ count' = count + 1
  /\ pc' = "post_send"
  /\ UNCHANGED <<entry, args, fs0, xmlVars, exit, posts, waits,
                 submitOutcome, rejectStatus, location, fetchVars>>

\* lib.rs:119-120, 82, 126-131  the scanner is busy: increase_retry_count
\* increases the count and the 1-second sleep starts
PostBusy ==
  /\ pc = "post_wait"
  /\ \E status \in PostStatuses, header \in LocationHeaders :
       /\ send_post(status, header).kind = "Busy"
       /\ lastPost' = PostAnswer(status, header)
  /\ busy' = busy + 1
  /\ count' = count + 1
  /\ waits' = waits + 1
  /\ inflight' = (inflight \ {"POST"}) \cup {"sleep"}
  /\ pc' = "retry_sleep"
  /\ UNCHANGED <<entry, args, fs0, xmlVars, exit, posts, submitOutcome,
                 rejectStatus, location, fetchVars>>

\* lib.rs:122, 85 and main.rs:43  Err(anyhow!(status)) reaches main's caller
PostRejected ==
  /\ pc = "post_wait"
  /\ \E status \in PostStatuses, header \in LocationHeaders :
       LET r == send_post(status, header)
       IN /\ r.kind = "Err"
          /\ rejectStatus' = r.status
          /\ lastPost' = PostAnswer(status, header)
  /\ inflight' = inflight \ {"POST"}
  /\ submitOutcome' = "Rejected"
  /\ exit' = "err"
  /\ pc' = "done"
  /\ UNCHANGED <<entry, args, fs0, xmlVars, count, posts, busy, waits,
                 location, fetchVars>>

\* lib.rs:131-135  the sleep is over; too many retries panic, otherwise
\* the loop of post_scanrequest sends the next POST
RetryWake ==
  /\ pc = "retry_sleep"
  /\ inflight' = inflight \ {"sleep"}
  /\ IF RetryExhausted(count)
       THEN /\ submitOutcome' = "Timeout"
            /\ exit' = "panic"
            /\ pc' = "done"
       ELSE /\ pc' = "post_send"
            /\ UNCHANGED <<submitOutcome, exit>>
  /\ UNCHANGED <<entry, args, fs0, xmlVars, count, posts, busy, waits,
                 rejectStatus, lastPost, location, fetchVars>>

\* main.rs:45-50  the job location is parsed again (a failure panics), the
\* output path is built, and fetch_result starts (lib.rs:143-145)
MainCallFetch ==
  /\ pc = "main_fetch"
  /\ LET valid_result_url == UrlParse(location.val)
     IN IF valid_result_url.ok
          THEN /\ location' = valid_result_url
               /\ outfile' = MainOutfile(args.format)
               /\ multi' = MainMultifile(args.source, args.format)
               /\ fetch_count' = 1
               /\ pc' = "fetch_top"
               /\ exit' = exit
          ELSE /\ exit' = "panic"
               /\ pc' = "done"
               /\ UNCHANGED <<location, outfile, multi, fetch_count>>
  /\ UNCHANGED <<entry, args, fs0, xmlVars, inflight, count, posts, busy,
                 waits, submitOutcome, rejectStatus, lastPost, filename, gets,
                 fetch_waits, lastGet, docs, saved, fs, fetchOutcome,
                 fetchLog>>

----------------------------------------------------------------------------
(* fetch_result: lib.rs:138-174 *)

\* what fetch_result leaves alone while it runs
fetchFrame == <<entry, args, fs0, xmlVars, submitVars, multi, outfile>>

\* lib.rs:148  determine_filename panics: outfile holds no "."
FetchFilenamePanic ==
  /\ pc = "fetch_top"
  /\ ~determine_filename(multi, outfile, fetch_count).ok
  /\ fetchOutcome' = "FilenamePanic"
  /\ exit' = "panic"
  /\ pc' = "done"
  /\ UNCHANGED <<fetchFrame, fetchLog, inflight, fetch_count, filename, gets,
                 fetch_waits, lastGet, docs, saved, fs>>

\* a mutant of FetchIterate: the file name is computed, the sleep left out
FetchIterateNoWait ==
  /\ pc = "fetch_top"
  /\ determine_filename(multi, outfile, fetch_count).ok
  /\ filename' = determine_filename(multi, outfile, fetch_count).val
  /\ pc' = "fetch_sleep"
  /\ UNCHANGED <<fetchFrame, fetchLog, inflight, exit, fetch_count, gets,
                 fetch_waits, lastGet, docs, saved, fs, fetchOutcome>>

\* lib.rs:148-149  the file name of this iteration is computed and the
\* 1-second sleep starts
FetchIterate ==
  /\ pc = "fetch_top"
  /\ determine_filename(multi, outfile, fetch_count).ok
  /\ filename' = determine_filename(multi, outfile, fetch_count).val
  /\ fetch_waits' = fetch_waits + 1
  /\ inflight' = inflight \cup {"sleep"}
  /\ pc' = "fetch_sleep"
  /\ UNCHANGED <<fetchFrame, fetchLog, exit, fetch_count, gets, lastGet, docs,
                 saved, fs, fetchOutcome>>

\* lib.rs:151  location.join("NextDocument")? fails: fetch_result returns Err
FetchJoinError ==
  /\ pc = "fetch_sleep"
  /\ ~UrlJoin(location.val, "NextDocument").ok
  /\ inflight' = inflight \ {"sleep"}
  /\ fetchOutcome' = "JoinError"
  /\ exit' = "err"
  /\ pc' = "done"
  /\ UNCHANGED <<fetchFrame, fetchLog, fetch_count, filename, gets,
                 fetch_waits, lastGet, docs, saved, fs>>

\* a mutant of FetchSendGet: the GET is sent while the sleep still runs
FetchSendGetNoAwait ==
  /\ pc = "fetch_sleep"
  /\ UrlJoin(location.val, "NextDocument").ok
  /\ inflight' = inflight \cup {"GET"}
  /\ gets' = gets + 1
  /\ pc' = "get_wait"
  /\ UNCHANGED <<fetchFrame, fetchLog, exit, fetch_count, filename,
                 fetch_waits, lastGet, docs, saved, fs, fetchOutcome>>

\* lib.rs:149-151  the sleep is over and GET NextDocument is sent
FetchSendGet ==
  /\ pc = "fetch_sleep"
  /\ UrlJoin(location.val, "NextDocument").ok
  /\ inflight' = (inflight \ {"sleep"}) \cup {"GET"}
  /\ gets' = gets + 1
  /\ pc' = "get_wait"
  /\ UNCHANGED <<fetchFrame, fetchLog, exit, fetch_count, filename,
                 fetch_waits, lastGet, docs, saved, fs, fetchOutcome>>

\* a mutant of GetTransportFailure: the failed request is tried again
GetTransportFailureRetried ==
  /\ pc = "get_wait"
  /\ inflight' = inflight \ {"GET"}
  /\ lastGet' = Failed
  /\ pc' = "fetch_top"
  /\ UNCHANGED <<fetchFrame, fetchLog, exit, fetch_count, filename, gets,
                 fetch_waits, docs, saved, fs, fetchOutcome>>

\* lib.rs:153-155  no response: panic
GetTransportFailure ==
  /\ pc = "get_wait"
  /\ inflight' = inflight \ {"GET"}
  /\ lastGet' = Failed
  /\ fetchOutcome' = "TransportPanic"
  /\ exit' = "panic"
  /\ pc' = "done"
  /\ UNCHANGED <<fetchFrame, fetchLog, fetch_count, filename, gets,
                 fetch_waits, docs, saved, fs>>

\* a mutant of AfterSave: the loop ends after the first save in any mode
AfterSaveAlwaysBreak(multi_) == "done"

\* a mutant of AfterSave: the loop goes on in single-document mode too
AfterSaveNoBreak(multi_) == "fetch_top"

\* lib.rs:164-166  after a save the loop goes on only in multi mode
AfterSave(multi_) == IF multi_ THEN "fetch_top" ELSE "done"

\* lib.rs:159-166  2xx: the file is created, the body read and copied into
\* it, the count increased; without multi the loop ends and Ok is returned
GetSaved ==
  /\ pc = "get_wait"
  /\ fetch_count <= MaxDocs
  /\ \E status \in GetStatuses, body \in Bodies :
       /\ IsSuccess(status)
       /\ lastGet' = GetAnswer(status)
       /\ docs' = Append(docs, body)
       /\ fs' = WriteFile(CreateFile(fs, filename), filename, body)
       /\ saved' = Append(saved, [name |-> filename, body |-> body])
  /\ oks' = oks + 1
  /\ created' = Append(created, filename)
  /\ inflight' = inflight \ {"GET"}
  /\ fetch_count' = fetch_count + 1
  /\ pc' = AfterSave(multi)
  /\ IF pc' = "done"
       THEN fetchOutcome' = "Ok" /\ exit' = "ok"
       ELSE UNCHANGED <<fetchOutcome, exit>>
  /\ UNCHANGED <<fetchFrame, filename, gets, fetch_waits, ioFail>>

\* lib.rs:160  2xx, and File::create(filename)? fails: Err is returned
GetCreateFails ==
  /\ pc = "get_wait"
  /\ fetch_count <= MaxDocs
  /\ \E status \in GetStatuses :
       /\ IsSuccess(status)
       /\ lastGet' = GetAnswer(status)
  /\ oks' = oks + 1
  /\ ioFail' = "create"
  /\ inflight' = inflight \ {"GET"}
  /\ fetchOutcome' = "IoError"
  /\ exit' = "err"
  /\ pc' = "done"
  /\ UNCHANGED <<fetchFrame, fetch_count, filename, gets, fetch_waits, docs,
                 saved, fs, created>>

\* a mutant of GetBodyFails: the body is read before the file is created
GetBodyFailsReadFirst ==
  /\ pc = "get_wait"
  /\ fetch_count <= MaxDocs
  /\ \E status \in GetStatuses :
       /\ IsSuccess(status)
       /\ lastGet' = GetAnswer(status)
  /\ oks' = oks + 1
  /\ ioFail' = "read"
  /\ inflight' = inflight \ {"GET"}
  /\ fetchOutcome' = "IoError"
  /\ exit' = "err"
  /\ pc' = "done"
  /\ UNCHANGED <<fetchFrame, fetch_count, filename, gets, fetch_waits, docs,
                 saved, fs, created>>

\* lib.rs:160-161  2xx, the file is created, and response.bytes().await?
\* fails: Err is returned
GetBodyFails ==
  /\ pc = "get_wait"
  /\ fetch_count <= MaxDocs
  /\ \E status \in GetStatuses :
       /\ IsSuccess(status)
       /\ lastGet' = GetAnswer(status)
  /\ fs' = CreateFile(fs, filename)
  /\ oks' = oks + 1
  /\ created' = Append(created, filename)
  /\ ioFail' = "read"
  /\ inflight' = inflight \ {"GET"}
  /\ fetchOutcome' = "IoError"
  /\ exit' = "err"
  /\ pc' = "done"
  /\ UNCHANGED <<fetchFrame, fetch_count, filename, gets, fetch_waits, docs,
                 saved>>

\* lib.rs:160-162  2xx, the file is created, the body read, and copy(..)?
\* fails part-way: Err is returned
GetWriteFails ==
  /\ pc = "get_wait"
  /\ fetch_count <= MaxDocs
  /\ \E status \in GetStatuses, body \in Bodies :
       /\ IsSuccess(status)
       /\ lastGet' = GetAnswer(status)
       /\ docs' = Append(docs, body)
       /\ \E part \in ProperPrefixes(body) :
            fs' = WriteFile(CreateFile(fs, filename), filename, part)
  /\ oks' = oks + 1
  /\ created' = Append(created, filename)
  /\ ioFail' = "write"
  /\ inflight' = inflight \ {"GET"}
  /\ fetchOutcome' = "IoError"
  /\ exit' = "err"
  /\ pc' = "done"
  /\ UNCHANGED <<fetchFrame, fetch_count, filename, gets, fetch_waits, saved>>

\* a mutant of GetNotFound: the 404 is counted like a saved document
GetNotFoundCounted ==
  /\ pc = "get_wait"
  /\ \E status \in GetStatuses :
       /\ ~IsSuccess(status)
       /\ IsNotFound(status)
       /\ lastGet' = GetAnswer(status)
  /\ fetch_count' = fetch_count + 1
  /\ inflight' = inflight \ {"GET"}
  /\ fetchOutcome' = "NotFound"
  /\ exit' = "ok"
  /\ pc' = "done"
  /\ UNCHANGED <<fetchFrame, fetchLog, filename, gets, fetch_waits, docs,
                 saved, fs>>

\* lib.rs:167-168, 173  404: the loop ends and Ok is returned
GetNotFound ==
  /\ pc = "get_wait"
  /\ \E status \in GetStatuses :
       /\ ~IsSuccess(status)
       /\ IsNotFound(status)
       /\ lastGet' = GetAnswer(status)
  /\ inflight' = inflight \ {"GET"}
  /\ fetchOutcome' = "NotFound"
  /\ exit' = "ok"
  /\ pc' = "done"
  /\ UNCHANGED <<fetchFrame, fetchLog, fetch_count, filename, gets,
                 fetch_waits, docs, saved, fs>>

\* a mutant of GetUnexpected: the files saved so far are removed first
GetUnexpectedCleanup ==
  /\ pc = "get_wait"
  /\ \E status \in GetStatuses :
       /\ ~IsSuccess(status)
       /\ ~IsNotFound(status)
       /\ lastGet' = GetAnswer(status)
  /\ fs' = [n \in DOMAIN fs \ { saved[i].name : i \in 1..Len(saved) } |-> fs[n]]
  /\ inflight' = inflight \ {"GET"}
  /\ fetchOutcome' = "UnexpectedStatusPanic"
  /\ exit' = "panic"
  /\ pc' = "done"
  /\ UNCHANGED <<fetchFrame, fetchLog, fetch_count, filename, gets,
                 fetch_waits, docs, saved>>

\* lib.rs:169-171  any other status: panic
GetUnexpected ==
  /\ pc = "get_wait"
  /\ \E status \in GetStatuses :
       /\ ~IsSuccess(status)
       /\ ~IsNotFound(status)
       /\ lastGet' = GetAnswer(status)
  /\ inflight' = inflight \ {"GET"}
  /\ fetchOutcome' = "UnexpectedStatusPanic"
  /\ exit' = "panic"
  /\ pc' = "done"
  /\ UNCHANGED <<fetchFrame, fetchLog, fetch_count, filename, gets,
                 fetch_waits, docs, saved, fs>>

----------------------------------------------------------------------------

Next ==
  \/ BuildScanSettings
  \/ PostSend
  \/ PostTransportFailure
  \/ PostAccepted
  \/ PostBusy
  \/ PostRejected
  \/ RetryWake
  \/ MainCallFetch
  \/ FetchFilenamePanic
  \/ FetchIterate
  \/ FetchJoinError
  \/ FetchSendGet
  \/ GetTransportFailure
  \/ GetSaved
  \/ GetCreateFails
  \/ GetBodyFails
  \/ GetWriteFails
  \/ GetNotFound
  \/ GetUnexpected

Spec == Init /\ [][Next]_vars

\* every await of the run completes: the scanner answers or the transport
\* fails, and a sleep ends
FairSpec == Spec /\ WF_vars(Next)

----------------------------------------------------------------------------
(* Properties of post_scanrequest *)

\* the POST requests that are over, answered or failed
PostsOver == posts - (IF "POST" \in inflight THEN 1 ELSE 0)

\* every POST that is over was answered with 503
AllBusy == busy = PostsOver

\* the header texts that are absolute URLs
UrlTexts ==
  { <<"http://", "h">>, <<"http://", "h", "/", "j">>, <<"mailto:", "x">> }

\* the last POST was answered with a status of 200..299
LastPost2xx ==
  /\ lastPost.kind = "response"
  /\ lastPost.status \in 200..299

\* the last POST was answered with a Location header that is a URL
LastPostHasUrl ==
  /\ lastPost.kind = "response"
  /\ lastPost.header.kind = "text"
  /\ lastPost.header.text \in UrlTexts

\* nothing was retried after the last answer: every POST but the last was
\* answered with 503, and each 503 was followed by one increment and one wait
NoRetryAfterLast ==
  /\ posts = busy + 1
  /\ count = busy
  /\ waits = busy
  /\ inflight \cap {"POST"} = {}

\* C1: against a scanner that answers every POST with 503, submission is
\* never accepted, rejected or failed; it ends, with the Timeout outcome,
\* exactly when the count, which starts at 0 and grows by one per 503,
\* has reached 100 and the 100th wait is over: after 100 POSTs, 100 busy
\* answers and 100 waits, not earlier and not later.
C1_TimeoutAfter100 ==
  /\ count \in 0..MAX_RETRIES
  /\ AllBusy => submitOutcome \in {"none", "Timeout"}
  /\ (entry = "main" /\ AllBusy /\ count < 100) =>
       /\ submitOutcome = "none"
       /\ exit = "running"
       /\ pc \in {"post_send", "post_wait", "retry_sleep"}
  /\ (count = 100 /\ pc # "retry_sleep") => submitOutcome = "Timeout"
  /\ submitOutcome = "Timeout" =>
       /\ count = 100 /\ posts = 100 /\ busy = 100 /\ waits = 100
       /\ exit = "panic" /\ pc = "done" /\ inflight = {}

C1_Witness == submitOutcome = "Timeout" /\ posts = 100 /\ AllBusy

\* C2: a POST answered with 2xx and a Location header that is a URL ends
\* submission in Accepted, the job location being the header's text with
\* "/" appended, and no further POST is issued; this holds for the first
\* POST and after any number of 503 answers.
C2_AcceptedLocation ==
  (LastPost2xx /\ LastPostHasUrl) =>
    /\ submitOutcome = "Accepted"
    /\ location = Some(lastPost.header.text \o <<"/">>)
    /\ posts = busy + 1
    /\ "POST" \notin inflight
    /\ pc \notin {"post_send", "post_wait", "retry_sleep"}

C2_Witness ==
  /\ submitOutcome = "Accepted"
  /\ busy = 2
  /\ lastPost.status = 201
  /\ lastPost.header.text = <<"http://", "h", "/", "j">>
  /\ location.val = <<"http://", "h", "/", "j", "/">>

\* C3: a POST answered with a status that is neither 2xx nor 503 ends
\* submission at once with the Rejected outcome carrying that status, as
\* an error returned to the caller: no wait, no increment of the count and
\* no further POST follow.
C3_RejectNoRetry ==
  (/\ lastPost.kind = "response"
   /\ lastPost.status \notin 200..299
   /\ lastPost.status # 503) =>
    /\ submitOutcome = "Rejected"
    /\ rejectStatus = lastPost.status
    /\ exit = "err"
    /\ pc = "done"
    /\ NoRetryAfterLast
    /\ inflight = {}

C3_Witness ==
  /\ submitOutcome = "Rejected"
  /\ rejectStatus = 500
  /\ posts = 1
  /\ count = 0
  /\ waits = 0

\* C4: a POST answered with 2xx whose Location header is missing or is not
\* a URL ends submission with the Rejected outcome carrying the 2xx status;
\* it is neither accepted nor taken for busy, and nothing is retried.
C4_MalformedSuccessRejected ==
  (LastPost2xx /\ ~LastPostHasUrl) =>
    /\ submitOutcome = "Rejected"
    /\ rejectStatus = lastPost.status
    /\ rejectStatus \in 200..299
    /\ exit = "err"
    /\ pc = "done"
    /\ NoRetryAfterLast

C4_Witness ==
  /\ submitOutcome = "Rejected"
  /\ rejectStatus = 201
  /\ lastPost.header.kind = "text"
  /\ lastPost.header.text = <<"/", "j">>
  /\ busy = 1

\* C5: a POST that gets no response at all ends submission with the
\* RequestFailed outcome, an error returned to the caller; no wait and no
\* further POST follow, however many 503 answers came before.
C5_TransportFailureNoRetry ==
  lastPost = Failed =>
    /\ submitOutcome = "RequestFailed"
    /\ exit = "err"
    /\ pc = "done"
    /\ NoRetryAfterLast
    /\ inflight = {}

C5_Witness ==
  /\ submitOutcome = "RequestFailed"
  /\ lastPost = Failed
  /\ busy = 3
  /\ posts = 4

----------------------------------------------------------------------------
(* Properties of fetch_result *)

\* the file system after the saves, in order, on top of files
RECURSIVE FsAfter(_, _)
FsAfter(files, saves) ==
  IF saves = <<>> THEN files
  ELSE FsAfter([n \in DOMAIN files \cup {Head(saves).name} |->
                  IF n = Head(saves).name THEN Head(saves).body ELSE files[n]],
               Tail(saves))

\* the last GET NextDocument was answered with a status of 200..299
LastGet2xx ==
  /\ lastGet.kind = "response"
  /\ lastGet.status \in 200..299

\* a base output path of the form name.ext
OneDot(o) == Len(o) = 3 /\ o[1] # "." /\ o[2] = "." /\ o[3] # "."

\* name-i.ext for the base output path name.ext and i in 1..9
Numbered(o, i) ==
  <<o[1], "-", <<"1", "2", "3", "4", "5", "6", "7", "8", "9">>[i], ".", o[3]>>

C7_MultiNumberedFiles ==
  (multi /\ OneDot(outfile) /\ fetchOutcome = "NotFound") =>
    LET k == gets - 1
        names == { Numbered(outfile, i) : i \in 1..k }
    IN /\ pc = "done"
       /\ exit = "ok"
       /\ Len(docs) = k
       /\ Len(saved) = k
       /\ \A i \in 1..k :
            /\ saved[i] = [name |-> Numbered(outfile, i), body |-> docs[i]]
            /\ fs[Numbered(outfile, i)] = docs[i]
       /\ DOMAIN fs = DOMAIN fs0 \cup names
       /\ \A n \in DOMAIN fs0 \ names : fs[n] = fs0[n]

C7_Witness ==
  /\ multi
  /\ fetchOutcome = "NotFound"
  /\ outfile = <<"a", ".", "t">>
  /\ fs0 = EmptyFs
  /\ gets = 3
  /\ DOMAIN fs = { <<"a", "-", "1", ".", "t">>, <<"a", "-", "2", ".", "t">> }
  /\ fs[<<"a", "-", "1", ".", "t">>] = <<"x">>
  /\ fs[<<"a", "-", "2", ".", "t">>] = <<"y", "z">>

\* C8: a GET answered with 404 ends the loop and fetch_result returns Ok,
\* in both modes; no file is written in that iteration, so the files are
\* those of the earlier saves, one per earlier GET; when the first GET is
\* answered with 404, one GET was issued and no file was written.
C8_NotFoundEndsLoop ==
  (lastGet.kind = "response" /\ lastGet.status = 404) =>
    /\ pc = "done"
    /\ exit = "ok"
    /\ fetchOutcome = "NotFound"
    /\ inflight = {}
    /\ Len(docs) = gets - 1
    /\ Len(saved) = gets - 1
    /\ fs = FsAfter(fs0, saved)
    /\ gets = 1 => (saved = <<>> /\ fs = fs0)

C8_Witness ==
  /\ ~multi
  /\ lastGet = GetAnswer(404)
  /\ gets = 1
  /\ fs = EmptyFs
  /\ exit = "ok"

\* C9: a GET answered with a status that is neither 2xx nor 404 makes
\* fetch_result return an error to its caller, and no further GET is issued.
C9_UnexpectedStatusIsErr ==
  (/\ lastGet.kind = "response"
   /\ lastGet.status \notin 200..299
   /\ lastGet.status # 404) =>
    /\ exit = "err"
    /\ pc = "done"
    /\ "GET" \notin inflight

\* C10: when fetch_result aborts on an unexpected status or on a transport
\* failure after j saves, the j files of the earlier iterations are present
\* with the bodies saved, and the file system is exactly what those saves
\* left: the aborting iteration creates, truncates and deletes nothing.
C10_AbortKeepsFiles ==
  fetchOutcome \in {"UnexpectedStatusPanic", "TransportPanic"} =>
    /\ pc = "done"
    /\ Len(saved) = gets - 1
    /\ fs = FsAfter(fs0, saved)
    /\ \A i \in 1..Len(saved) :
         /\ saved[i].name \in DOMAIN fs
         /\ fs[saved[i].name] = saved[i].body

C10_Witness ==
  /\ fetchOutcome = "UnexpectedStatusPanic"
  /\ Len(saved) = 2
  /\ fs0 = EmptyFs
  /\ Cardinality(DOMAIN fs) = 2

\* C11 as claimed: in every reachable state the files written are as many
\* as the 2xx answers to NextDocument processed, and that number is the
\* sequence number less one.
C11_SavedEqualsAnswered ==
  /\ fetch_count >= 1
  /\ Len(saved) = oks
  /\ oks = fetch_count - 1

\* C11, amended: the sequence number starts at 1 and changes only by +1,
\* in the step that completes a save (never on 404, on an unexpected status
\* or on a transport failure); in every reachable state the saves completed
\* are the sequence number less one.  The 2xx answers processed are as
\* many, except after a 2xx answer whose file could not be created, read or
\* written: that answer is not counted, and fetch_result has returned an
\* error.
C11_SequenceGapless ==
  /\ [](/\ fetch_count >= 1
        /\ Len(saved) = fetch_count - 1
        /\ oks = Len(saved) + (IF ioFail = "none" THEN 0 ELSE 1)
        /\ ioFail # "none" => (pc = "done" /\ exit = "err")
        /\ (gets = 0 => fetch_count = 1))
  /\ [][fetch_count' # fetch_count =>
          /\ fetch_count' = fetch_count + 1
          /\ Len(saved') = Len(saved) + 1
          /\ lastGet'.kind = "response"
          /\ lastGet'.status \in 200..299
          /\ ioFail' = "none"]_vars

C11_Witness ==
  /\ fetch_count = 3
  /\ Len(saved) = 2
  /\ oks = 2
  /\ pc = "get_wait"

----------------------------------------------------------------------------
(* Properties of the whole run *)

\* the positions of the flow of control inside fetch_result
FetchPcs == {"fetch_top", "fetch_sleep", "get_wait"}

\* C12: in a run of main, nothing of the fetch (no wait, no GET) happens
\* before submission has ended, and then only when it ended in Accepted,
\* never after Rejected, RequestFailed or Timeout; a GET is issued only
\* when no GET is in flight and every earlier GET was answered and its
\* document saved; at most one network call or timed wait is in flight in
\* any reachable state.
C12_SubmitThenFetchInSequence ==
  /\ [](/\ Cardinality(inflight) <= 1
        /\ entry = "main" =>
             /\ (gets > 0 \/ fetch_waits > 0 \/ pc \in FetchPcs) =>
                  /\ submitOutcome = "Accepted"
                  /\ "POST" \notin inflight
                  /\ posts = busy + 1
             /\ submitOutcome \in {"Rejected", "RequestFailed", "Timeout"} =>
                  /\ gets = 0
                  /\ fetch_waits = 0
                  /\ pc = "done"
                  /\ inflight = {}
             /\ submitOutcome = "none" => (gets = 0 /\ fetch_waits = 0))
  /\ [][gets' # gets =>
          /\ gets' = gets + 1
          /\ "GET" \notin inflight
          /\ inflight' = {"GET"}
          /\ oks = gets
          /\ Len(saved) = gets
          /\ posts' = posts]_vars

C12_Witness ==
  /\ entry = "main"
  /\ submitOutcome = "Accepted"
  /\ busy = 1
  /\ gets = 2
  /\ inflight = {"GET"}

\* C13: within one run of fetch_result every file created has a name
\* different from those created before it: with multi the N-th gets the
\* number N (name-N.ext for a base output path name.ext), without multi at
\* most one file is created; so every file saved in the run still holds the
\* body saved into it.
C13_DistinctFileNames ==
  /\ \A i, j \in 1..Len(created) : i # j => created[i] # created[j]
  /\ ~multi => Len(created) <= 1
  /\ (multi /\ OneDot(outfile)) =>
       \A i \in 1..Len(created) : created[i] = Numbered(outfile, i)
  /\ \A i \in 1..Len(saved) :
       /\ saved[i].name = created[i]
       /\ saved[i].name \in DOMAIN fs
       /\ fs[saved[i].name] = saved[i].body

C13_Witness ==
  /\ multi
  /\ outfile = <<"a", ".", "t", ".", "z">>
  /\ created = << <<"a", "-", "1", ".", "t">>, <<"a", "-", "2", ".", "t">> >>
  /\ Len(saved) = 1
  /\ ioFail = "write"

----------------------------------------------------------------------------
(* Properties of build_scansettings_xml *)

\* the places of a text in a document
Places(doc, text) == { i \in 1..Len(doc) : doc[i] = text }

\* the document holds exactly one element of this name, with this content:
\* one start tag, one end tag, and the content between them
HasOneElement(doc, name, content) ==
  LET starts == Places(doc, "<" \o name \o ">")
      ends == Places(doc, "</" \o name \o ">")
  IN /\ Cardinality(starts) = 1
     /\ Cardinality(ends) = 1
     /\ \E i \in starts, j \in ends :
          /\ i < j
          /\ SubSeq(doc, i + 1, j - 1) = content

\* the document holds no element of this name
HasNoElement(doc, name) ==
  /\ Places(doc, "<" \o name \o ">") = {}
  /\ Places(doc, "</" \o name \o ">") = {}

\* C14: for every source, resolution, format and colour mode, and for an
\* extended format that is absent, present and true, or present and false,
\* the document built holds exactly one InputSource element carrying the
\* source as given, exactly one DocumentFormat element carrying the format
\* as given, and exactly one DocumentFormatExt element carrying the same
\* format when the extended format is present, whatever its value, and
\* none when it is absent.
C14_OneElementEach ==
  request # <<>> =>
    /\ HasOneElement(request, "pwg:InputSource", xmlArgs.source)
    /\ HasOneElement(request, "pwg:DocumentFormat", xmlArgs.docformat)
    /\ IF xmlArgs.extformat \in {Some(TRUE), Some(FALSE)}
         THEN HasOneElement(request, "pwg:DocumentFormatExt",
                            xmlArgs.docformat)
         ELSE HasNoElement(request, "pwg:DocumentFormatExt")

C14_Witness ==
  /\ entry = "build_scansettings_xml"
  /\ pc = "done"
  /\ xmlArgs.extformat = Some(FALSE)
  /\ xmlArgs.docformat = <<"application/", "jpg">>
  /\ Places(request, "<pwg:DocumentFormatExt>") # {}

----------------------------------------------------------------------------
(* Properties of the retry loop of post_scanrequest *)

\* the last POST was answered with 503
LastPost503 == lastPost.kind = "response" /\ lastPost.status = 503

\* C15: a POST other than the first is sent only after the retry wait:
\* between two consecutive POSTs there is exactly one 503 answer, one
\* 1-second wait and one increase of the count by 1, the count starts at 0,
\* and only a 503 answer leads to another POST.
C15_OneBusyOneWaitPerRetry ==
  /\ [](/\ pc = "post_send" =>
             /\ posts = busy /\ posts = waits /\ posts = count
             /\ posts > 0 => LastPost503
             /\ inflight = {}
        /\ pc = "post_wait" =>
             /\ posts = busy + 1 /\ busy = waits /\ busy = count
        /\ pc = "retry_sleep" =>
             /\ posts = busy /\ waits = busy /\ count = busy
             /\ LastPost503
             /\ "sleep" \in inflight
        /\ posts = 0 => count = 0
        /\ posts >= 1 => busy >= posts - 1)
  /\ [][/\ posts' # posts =>
             /\ posts' = posts + 1
             /\ pc = "post_send"
             /\ posts > 0 => LastPost503
        /\ count' # count =>
             /\ count' = count + 1
             /\ waits' = waits + 1
             /\ busy' = busy + 1
             /\ "sleep" \in inflight'
        /\ busy' # busy =>
             /\ busy' = busy + 1
             /\ lastPost'.kind = "response" /\ lastPost'.status = 503]_vars

C15_Witness ==
  /\ pc = "post_wait"
  /\ posts = 3
  /\ busy = 2
  /\ waits = 2
  /\ count = 2

----------------------------------------------------------------------------
(* Properties of the fetch loop: failures, order, termination *)

\* C16: when GET NextDocument gets no response, fetch_result aborts the
\* whole run by a panic that reaches its caller: the request is not tried
\* again and no further GET is issued (the run is over with the failed GET
\* as its last), no file is written in that iteration (the files are those
\* of the earlier saves), and the count is not increased.
C16_TransportFailureAborts ==
  lastGet = Failed =>
    /\ pc = "done"
    /\ exit = "panic"
    /\ fetchOutcome = "TransportPanic"
    /\ inflight = {}
    /\ gets = Len(saved) + 1
    /\ fetch_waits = gets
    /\ fetch_count = Len(saved) + 1
    /\ fs = FsAfter(fs0, saved)
    /\ Len(created) = Len(saved)
    /\ ioFail = "none"

C16_Witness ==
  /\ lastGet = Failed
  /\ gets = 2
  /\ Len(saved) = 1
  /\ fetch_count = 2
  /\ fs0 = OldFs
  /\ exit = "panic"

\* the file name computed for the current count
CurrentName == determine_filename(multi, outfile, fetch_count)

\* C17: every GET NextDocument, the first included, directly follows one
\* 1-second wait of the same iteration, which starts once the file name for
\* the current count is computed: the order is file name, wait, GET, each
\* wait is followed by at most one GET, and there is a wait between any two
\* GETs.
C17_NameWaitGet ==
  /\ [](/\ gets <= fetch_waits
        /\ fetch_waits <= gets + 1
        /\ pc = "fetch_top" => fetch_waits = gets
        /\ pc = "fetch_sleep" =>
             /\ fetch_waits = gets + 1
             /\ inflight = {"sleep"}
             /\ CurrentName.ok /\ filename = CurrentName.val
        /\ pc = "get_wait" =>
             /\ fetch_waits = gets
             /\ inflight = {"GET"}
             /\ CurrentName.ok /\ filename = CurrentName.val)
  /\ [][/\ gets' # gets =>
             /\ gets' = gets + 1
             /\ pc = "fetch_sleep"
             /\ inflight = {"sleep"}
             /\ inflight' = {"GET"}
             /\ fetch_waits = gets + 1
             /\ fetch_waits' = fetch_waits
             /\ filename = CurrentName.val
             /\ filename' = filename
        /\ fetch_waits' # fetch_waits =>
             /\ fetch_waits' = fetch_waits + 1
             /\ fetch_waits = gets
             /\ pc = "fetch_top"
             /\ inflight' = {"sleep"}
             /\ filename' = CurrentName.val
             /\ gets' = gets]_vars

C17_Witness ==
  /\ pc = "get_wait"
  /\ gets = 2
  /\ fetch_waits = 2
  /\ multi
  /\ filename = <<"a", "-", "2", ".", "t">>

\* the ways a fetch can end other than by the break after a save
LoopEnds ==
  {"NotFound", "UnexpectedStatusPanic", "TransportPanic", "IoError",
   "JoinError", "FilenamePanic"}

\* C18: the fetch loop counts no iterations.  With multi it ends only on a
\* 404, an unexpected status or a failure, never because of the number of
\* documents: after every save it goes on, and as long as every GET was
\* answered with 2xx and saved the run is still going; it ends once a GET
\* is not answered with 2xx, which every run here does within the documents
\* the scanner has.  Without multi at most one GET is issued and the run is
\* over once it is answered.
C18_LoopEndsOnlyOnNon2xx ==
  /\ [](/\ (multi /\ pc = "done" /\ gets >= 1) =>
             /\ fetchOutcome \in LoopEnds
             /\ (oks < gets \/ ioFail # "none")
        /\ (multi /\ gets >= 1 /\ oks = gets /\ ioFail = "none") =>
             /\ pc \in {"fetch_top", "fetch_sleep"}
             /\ exit = "running"
        /\ (~multi /\ entry # "build_scansettings_xml") =>
             /\ gets <= 1
             /\ (gets = 1 /\ lastGet # NoAnswer) => pc = "done")
  /\ [][(multi /\ fetch_count' # fetch_count /\ fetch_count >= 1
           /\ pc = "get_wait") =>
          (pc' = "fetch_top" /\ exit' = "running")]_vars
  /\ <>(pc = "done")

C18_Witness ==
  /\ multi
  /\ pc = "done"
  /\ gets = MaxDocs + 1
  /\ oks = MaxDocs
  /\ Len(saved) = MaxDocs
  /\ fetchOutcome = "NotFound"

----------------------------------------------------------------------------
(* Properties of post_scanrequest over all answers *)

\* the outcomes that end submission
TerminalOutcomes == {"Accepted", "Rejected", "RequestFailed", "Timeout"}

\* C19: whatever the scanner answers (2xx, 503, other statuses, no answer,
\* in any order), submission ends in Accepted, Rejected, RequestFailed or
\* Timeout after at most 100 POSTs, and in every reachable state the count
\* lies in 0..100 and equals the number of 503 answers received so far.
C19_AtMost100Posts ==
  /\ [](/\ count \in 0..MAX_RETRIES
        /\ count = busy
        /\ posts <= MAX_RETRIES
        /\ posts \in {busy, busy + 1}
        /\ (posts = MAX_RETRIES /\ pc \notin {"post_wait", "retry_sleep"}) =>
             submitOutcome \in TerminalOutcomes
        /\ submitOutcome \in TerminalOutcomes =>
             /\ posts \in 1..MAX_RETRIES
             /\ pc \notin {"post_send", "post_wait", "retry_sleep"}
             /\ "POST" \notin inflight
        /\ (entry = "main" /\ submitOutcome = "none") =>
             /\ pc \in {"post_send", "post_wait", "retry_sleep"}
             /\ exit = "running")
  /\ [][submitOutcome # "none" => (submitOutcome' = submitOutcome
                                     /\ posts' = posts)]_vars
  /\ (entry = "main") => <>(submitOutcome \in TerminalOutcomes)

C19_Witness ==
  /\ pc = "post_wait"
  /\ posts = MAX_RETRIES
  /\ count = MAX_RETRIES - 1
  /\ busy = MAX_RETRIES - 1

----------------------------------------------------------------------------
(* Properties of the save of one document *)

\* the files as the saves so far left them
SavedFs == FsAfter(fs0, saved)

\* C20: on a 2xx answer the file is created, an existing file of that name
\* being emptied, before the body is read, and the count is increased only
\* once the whole body is written.  When creating the file, reading the
\* body or writing it fails, fetch_result returns an error with the count
\* unchanged and issues no further GET; after a failed read the file is
\* there and empty, after a failed write it holds a part of the body, and
\* in neither case is the document counted as saved.
C20_CreateReadWriteCount ==
  /\ [](/\ ioFail # "none" =>
             /\ pc = "done"
             /\ exit = "err"
             /\ fetchOutcome = "IoError"
             /\ LastGet2xx
             /\ inflight = {}
             /\ fetch_count = Len(saved) + 1
             /\ gets = fetch_count
             /\ \A i \in 1..Len(saved) : saved[i].name # filename
        /\ ioFail = "create" => fs = SavedFs
        /\ ioFail = "read" =>
             /\ filename \in DOMAIN fs
             /\ fs[filename] = <<>>
             /\ fs = CreateFile(SavedFs, filename)
        /\ ioFail = "write" =>
             /\ filename \in DOMAIN fs
             /\ fs[filename] \in ProperPrefixes(docs[Len(docs)])
             /\ fs = WriteFile(SavedFs, filename, fs[filename]))
  /\ [][/\ fetch_count' # fetch_count =>
             /\ pc = "get_wait"
             /\ fetch_count' = fetch_count + 1
             /\ ioFail' = "none"
             /\ docs' # docs
             /\ fs' = WriteFile(fs, filename, docs'[Len(docs')])
             /\ saved' =
                  Append(saved, [name |-> filename,
                                 body |-> docs'[Len(docs')]])
        /\ ioFail' # ioFail =>
             /\ pc = "get_wait"
             /\ fetch_count' = fetch_count
             /\ gets' = gets
             /\ saved' = saved]_vars

C20_Witness ==
  /\ ioFail = "read"
  /\ fs0 = OldFs
  /\ multi
  /\ filename = <<"a", "-", "2", ".", "t">>
  /\ fs[filename] = <<>>
  /\ fs0[filename] = OldBody
  /\ Len(saved) = 1
  /\ fetch_count = 2
  /\ exit = "err"

====
